---- MODULE Spec2Model ----
(***************************************************************************)
(* Model of ux_manager.py: the in-memory registry of UxPlay child          *)
(* processes (_processes) and the operations start_instance,               *)
(* stop_instance, is_running, get_pid and stop_all, called from the        *)
(* script threads of the Streamlit front end (one thread per browser       *)
(* session, all sharing the module-level dictionary).  Each action is one  *)
(* step of a call between two accesses to shared state (the dictionary or  *)
(* the operating system's process table).  _resolve_binary and the         *)
(* command line start_instance builds are functions of their arguments     *)
(* and are also run on their own, over every input (FnSpec).               *)
(***************************************************************************)
EXTENDS Integers, Sequences, FiniteSets, TLC

\* ------------------------------------------------------------------ bounds
MaxProcs == 2            \* child processes the OS lets the program create

\* The script threads calling into the module: Streamlit runs the script of
\* each browser session in a thread of its own, and all of them import the
\* one module ux_manager.  Two sessions show every race of two calls.
Threads == {"session1", "session2"}
Pids == 1..MaxProcs
Labels == {"ipad", "iphone"}

\* Python's None, for an absent Popen handle or pid.
None == 0

\* The label of a thread that is in no call.
NoLabel == "-"

\* --------------------------------------------------------------- strings
\* A Python str is a sequence of one-character strings.
Uxplay == <<"u", "x", "p", "l", "a", "y">>
Sep == "/"
Whitespace == {" "}

\* The environment _resolve_binary looks at: the home directory and the
\* directories of PATH, in order.
Home == <<"/", "h">>
PathDirs == << <<"/", "a">>, <<"/", "b">> >>
Directories == { <<"/", "a">>, <<"/", "b">>, Home }

\* The file system of the host the front end runs on: its regular files
\* and the paths the user may execute (or, for a directory, search).
RegularFiles == { <<"/", "b", "/">> \o Uxplay,
                  <<"/", "h", "/", "u">>,
                  <<"/", "a", "/", "n">> }
Executable == { <<"/", "b", "/">> \o Uxplay,
                <<"/", "h", "/", "u">>,
                <<"/", "a">>, <<"/", "b">>, <<"/", "h">> }
HostFS == [files |-> RegularFiles, dirs |-> Directories, special |-> {},
           exec |-> Executable]

\* The file systems _resolve_binary is tried on: each of the paths below is
\* absent, a regular file (executable or not), an executable special file
\* (a FIFO, a socket, a device) or an executable directory.
FsPaths == { <<"/", "a", "/">> \o Uxplay,
             <<"/", "b", "/">> \o Uxplay,
             <<"/", "a", "/", "n">>,
             <<"/", "h", "/", "u">> }
FsKinds == {"absent", "file", "file_x", "special_x", "dir_x"}
FsOf(k) ==
    [files |-> {p \in FsPaths : k[p] \in {"file", "file_x"}},
     dirs |-> Directories \cup {p \in FsPaths : k[p] = "dir_x"},
     special |-> {p \in FsPaths : k[p] = "special_x"},
     exec |-> Directories
                \cup {p \in FsPaths : k[p] \in {"file_x", "special_x", "dir_x"}}]
FileSystems == {FsOf(k) : k \in [FsPaths -> FsKinds]}

\* What callers pass as binary_path.
BinaryInputs == { <<>>,
                  <<" ">>,
                  Uxplay,
                  <<" ">> \o Uxplay \o <<" ">>,
                  <<"/", "b", "/">> \o Uxplay,
                  <<"~", "/", "u">>,
                  <<"/", "a", "/", "n">>,
                  <<"/", "h", "/">> \o Uxplay,
                  <<"n">> }

\* The ones the threads of the front end pass to start_instance.
StartInputs == { Uxplay, <<"n">> }

RECURSIVE lstrip(_)
lstrip(s) == IF s # <<>> /\ Head(s) \in Whitespace THEN lstrip(Tail(s)) ELSE s

RECURSIVE rstrip(_)
rstrip(s) ==
    IF s # <<>> /\ s[Len(s)] \in Whitespace
    THEN rstrip(SubSeq(s, 1, Len(s) - 1))
    ELSE s

strip(s) == rstrip(lstrip(s))

\* os.path.expanduser: a leading "~" alone or followed by the separator is
\* replaced by the home directory; anything else is returned unchanged.
expanduser(s) ==
    IF s # <<>> /\ Head(s) = "~" /\ (Len(s) = 1 \/ s[2] = Sep)
    THEN Home \o Tail(s)
    ELSE s

\* os.path.exists, os.path.isfile, os.path.isdir, os.access(p, os.X_OK)
exists(fs, p) == p \in fs.files \cup fs.dirs \cup fs.special
isfile(fs, p) == p \in fs.files
isdir(fs, p) == p \in fs.dirs
access_X_OK(fs, p) == exists(fs, p) /\ p \in fs.exec

\* shutil.which for a name without a directory part: the name joined to
\* the first PATH directory where that gives a path that exists, may be
\* executed and is not a directory; None (here the empty string) when there
\* is none.  The empty name joined to a directory is that directory.
which(fs, cmd) ==
    LET cand(i) == PathDirs[i] \o <<Sep>> \o cmd
        ok(i) == /\ cmd # <<>>
                 /\ exists(fs, cand(i))
                 /\ access_X_OK(fs, cand(i))
                 /\ ~isdir(fs, cand(i))
        hits == {i \in 1..Len(PathDirs) : ok(i)}
    IN IF hits = {} THEN <<>>
       ELSE cand(CHOOSE i \in hits : \A j \in hits : i <= j)

Found(p) == [ok |-> TRUE, path |-> p]
FileNotFoundError(c) == [ok |-> FALSE, path |-> c]

\* Lines 22-23: (binary_path or "uxplay").strip(), then expanduser.
candidate_of(binary_path) ==
    expanduser(strip(IF binary_path = <<>> THEN Uxplay ELSE binary_path))

\* Mutant of resolve_binary: an explicit path is taken when the file
\* exists, without the check that it may be executed.
resolve_binary_unchecked_x(fs, binary_path) ==
    LET candidate == candidate_of(binary_path)
        resolved == which(fs, candidate)
    IN IF \E i \in 1..Len(candidate) : candidate[i] = Sep
       THEN IF isfile(fs, candidate)
            THEN Found(candidate)
            ELSE FileNotFoundError(candidate)
       ELSE IF resolved # <<>> /\ isfile(fs, resolved)
                 /\ access_X_OK(fs, resolved)
            THEN Found(resolved)
            ELSE FileNotFoundError(candidate)

\* _resolve_binary on the file system fs.
resolve_binary(fs, binary_path) ==
    LET candidate == candidate_of(binary_path)
        resolved == which(fs, candidate)
    IN IF \E i \in 1..Len(candidate) : candidate[i] = Sep
       THEN IF isfile(fs, candidate) /\ access_X_OK(fs, candidate)
            THEN Found(candidate)
            ELSE FileNotFoundError(candidate)
       ELSE IF resolved # <<>> /\ isfile(fs, resolved)
                 /\ access_X_OK(fs, resolved)
            THEN Found(resolved)
            ELSE FileNotFoundError(candidate)

\* ------------------------------------------------------ the command line
\* str(n) of an int: its decimal digits, with a minus sign when negative.
Digits == <<"0", "1", "2", "3", "4", "5", "6", "7", "8", "9">>

RECURSIVE str(_)
str(n) ==
    IF n < 0 THEN <<"-">> \o str(0 - n)
    ELSE IF n < 10 THEN <<Digits[n + 1]>>
    ELSE str(n \div 10) \o <<Digits[(n % 10) + 1]>>

\* extra_args is an Optional[list]: None, or a list of strings.
NoneArgs == [is_none |-> TRUE, items |-> <<>>]
ListArgs(l) == [is_none |-> FALSE, items |-> l]

\* What callers pass as airplay_name, base_port and extra_args.
AirplayNames == { <<"i", "P", "a", "d", "M", "i", "r", "r", "o", "r">>,
                  <<"T", "V", " ", "1">>,
                  <<"-", "n">> }
BasePorts == {1000, 7000, 7100, 65535}
ExtraArgs == { NoneArgs,
               ListArgs(<<>>),
               ListArgs(<< <<"-", "f", "s">> >>),
               ListArgs(<< <<"-", "n">>, <<"x">> >>),
               ListArgs(<< <<"-", "b">>, <<"-", "a">>, <<"-", "b">> >>) }

\* Mutant of cmd: extra arguments that repeat the fixed flags -n and -p
\* are filtered out.
cmd_without_conflicts(resolved_binary, airplay_name, base_port, extra_args) ==
    LET extra == IF extra_args.is_none THEN <<>> ELSE extra_args.items
    IN << resolved_binary,
          <<"-", "n">>,
          airplay_name,
          <<"-", "p">>,
          str(base_port),
          <<"-", "v", "s", "y", "n", "c">>,
          <<"n", "o">> >>
       \o SelectSeq(extra, LAMBDA a : a \notin {<<"-", "n">>, <<"-", "p">>})

\* Lines 63-77: extra_args None is the empty list; cmd is the list below.
cmd(resolved_binary, airplay_name, base_port, extra_args) ==
    LET extra == IF extra_args.is_none THEN <<>> ELSE extra_args.items
    IN << resolved_binary,
          <<"-", "n">>,
          airplay_name,
          <<"-", "p">>,
          str(base_port),
          <<"-", "v", "s", "y", "n", "c">>,
          <<"n", "o">> >>
       \o extra

\* -------------------------------------------------------------- the dict
\* _processes is a dict: a sequence of (label, proc) entries with distinct
\* labels, in insertion order.
Has(d, l) == \E i \in 1..Len(d) : d[i].label = l
Get(d, l) ==
    IF Has(d, l) THEN d[CHOOSE i \in 1..Len(d) : d[i].label = l].proc
    ELSE None
Put(d, l, p) ==
    IF Has(d, l)
    THEN [i \in 1..Len(d) |->
            IF d[i].label = l THEN [label |-> l, proc |-> p] ELSE d[i]]
    ELSE Append(d, [label |-> l, proc |-> p])
Pop(d, l) == SelectSeq(d, LAMBDA e : e.label # l)
Keys(d) == [i \in 1..Len(d) |-> d[i].label]

\* ----------------------------------------------------------------- state
VARIABLES
    processes,   \* the module-level dict _processes
    spawned,     \* spawned[p]: the label start_instance created the running
                 \* process p for (NoLabel once p has exited)
    running,     \* the pids whose OS process has not exited
    signals,     \* signals[p]: the signals sent to the running process p
    pc,          \* pc[t]: the line thread t is at ("idle": in no call)
    label,       \* label[t]: the label argument of the call in progress
    binary,      \* binary[t]: the binary_path argument
    proc,        \* proc[t]: the local variable proc
    inAll,       \* inAll[t]: stop_instance was called by stop_all
    todo,        \* todo[t]: the labels stop_all has still to go through
    count,       \* count[t]: stopped_count
    ret,         \* ret[t]: how the call the front end made from thread t
                 \* and that just ended, ended
    started      \* started[l]: the running processes whose pid a start of l
                 \* returned after the last call of a stop of l (history)

vars == <<processes, spawned, running, signals, pc, label, binary, proc,
          inAll, todo, count, ret, started>>

os == <<spawned, running, signals>>
allLocals == <<inAll, todo, count>>

Result(op, l, kind, val) == [op |-> op, label |-> l, kind |-> kind, val |-> val]
NoResult == Result("none", NoLabel, "none", None)

Init ==
    /\ processes = <<>>
    /\ spawned = <<>>
    /\ running = {}
    /\ signals = <<>>
    /\ pc = [t \in Threads |-> "idle"]
    /\ label = [t \in Threads |-> NoLabel]
    /\ binary = [t \in Threads |-> <<>>]
    /\ proc = [t \in Threads |-> None]
    /\ inAll = [t \in Threads |-> FALSE]
    /\ todo = [t \in Threads |-> <<>>]
    /\ count = [t \in Threads |-> 0]
    /\ ret = [t \in Threads |-> NoResult]
    /\ started = [l \in Labels |-> {}]

\* A call made by the front end ends with result r (a return value or an
\* exception): its locals are dead and the front end holds r.
Finish(t, r) ==
    /\ pc' = [pc EXCEPT ![t] = "done"]
    /\ ret' = [ret EXCEPT ![t] = r]
    /\ label' = [label EXCEPT ![t] = NoLabel]
    /\ proc' = [proc EXCEPT ![t] = None]
    /\ binary' = [binary EXCEPT ![t] = <<>>]

\* The front end has shown the result (st.success, st.error, ...); the
\* script thread is free for the next call.
Shown(t) ==
    /\ pc[t] = "done"
    /\ pc' = [pc EXCEPT ![t] = "idle"]
    /\ ret' = [ret EXCEPT ![t] = NoResult]
    /\ UNCHANGED <<processes, os, label, binary, proc, allLocals, started>>

\* Popen.poll() is None
Alive(p) == p \in running

\* -------------------------------------------------------- the OS process
\* A child process exits: on its own, by a crash, by an external kill, or
\* in response to a signal sent by stop_instance.
ProcExit(p) ==
    /\ p \in running
    /\ running' = running \ {p}
    /\ spawned' = [spawned EXCEPT ![p] = NoLabel]
    /\ signals' = [signals EXCEPT ![p] = {}]
    /\ started' = [l \in Labels |-> started[l] \ {p}]
    /\ UNCHANGED <<processes, pc, label, binary, proc, allLocals, ret>>

\* -------------------------------------------------------- start_instance
\* The call, and the first operand of line 58: label in _processes.
StartCall(t, l, b) ==
    /\ pc[t] = "idle"
    /\ label' = [label EXCEPT ![t] = l]
    /\ binary' = [binary EXCEPT ![t] = b]
    /\ pc' = [pc EXCEPT ![t] = IF Has(processes, l) THEN "start_58" ELSE "start_66"]
    /\ UNCHANGED <<processes, os, proc, allLocals, ret, started>>

\* The second operand of line 58: _processes[label].poll() is None.  The
\* subscript raises KeyError when the entry was removed in between.
StartPoll(t) ==
    /\ pc[t] = "start_58"
    /\ IF ~Has(processes, label[t])
       THEN Finish(t, Result("start", label[t], "KeyError", None))
       ELSE /\ pc' = [pc EXCEPT ![t] =
                         IF Alive(Get(processes, label[t])) THEN "start_59"
                         ELSE "start_66"]
            /\ UNCHANGED <<label, binary, proc, ret>>
    /\ UNCHANGED <<processes, os, allLocals, started>>

\* Lines 59-61: raise RuntimeError with the pid read again from the dict.
StartRaise(t) ==
    /\ pc[t] = "start_59"
    /\ IF ~Has(processes, label[t])
       THEN Finish(t, Result("start", label[t], "KeyError", None))
       ELSE Finish(t, Result("start", label[t], "AlreadyRunning",
                             Get(processes, label[t])))
    /\ UNCHANGED <<processes, os, allLocals, started>>

\* Mutant of StartNotFound: the failing call drops the (stale) entry of its
\* label before it raises.
StartNotFoundDropsEntry(t) ==
    /\ pc[t] = "start_66"
    /\ ~resolve_binary(HostFS, binary[t]).ok
    /\ processes' = Pop(processes, label[t])
    /\ Finish(t, Result("start", label[t], "NotFound", None))
    /\ UNCHANGED <<os, allLocals, started>>

\* Line 66: _resolve_binary(binary_path) raises FileNotFoundError.
StartNotFound(t) ==
    /\ pc[t] = "start_66"
    /\ ~resolve_binary(HostFS, binary[t]).ok
    /\ Finish(t, Result("start", label[t], "NotFound", None))
    /\ UNCHANGED <<processes, os, allLocals, started>>

\* Lines 66-84: the binary is resolved, cmd is built and subprocess.Popen
\* creates the child ...
StartPopen(t) ==
    /\ pc[t] = "start_66"
    /\ resolve_binary(HostFS, binary[t]).ok
    /\ Len(spawned) < MaxProcs
    /\ LET p == Len(spawned) + 1
       IN /\ spawned' = Append(spawned, label[t])
          /\ signals' = Append(signals, {})
          /\ running' = running \cup {p}
          /\ proc' = [proc EXCEPT ![t] = p]
    /\ binary' = [binary EXCEPT ![t] = <<>>]
    /\ pc' = [pc EXCEPT ![t] = "start_85"]
    /\ UNCHANGED <<processes, label, allLocals, ret, started>>

\* ... or Popen raises OSError (permissions, resource limits, bad format).
StartPopenFails(t) ==
    /\ pc[t] = "start_66"
    /\ resolve_binary(HostFS, binary[t]).ok
    /\ Finish(t, Result("start", label[t], "SpawnFailure", None))
    /\ UNCHANGED <<processes, os, allLocals, started>>

\* Mutant of StartStore: _processes.setdefault(label, proc), which keeps
\* the entry the label already has.
StartStoreKeepsOld(t) ==
    /\ pc[t] = "start_85"
    /\ processes' = IF Has(processes, label[t]) THEN processes
                    ELSE Put(processes, label[t], proc[t])
    /\ Finish(t, Result("start", label[t], "pid", proc[t]))
    /\ started' = [started EXCEPT ![label[t]] =
                      IF Alive(proc[t]) THEN @ \cup {proc[t]} ELSE @]
    /\ UNCHANGED <<os, allLocals>>

\* Lines 85-86: _processes[label] = proc; return proc.pid
StartStore(t) ==
    /\ pc[t] = "start_85"
    /\ processes' = Put(processes, label[t], proc[t])
    /\ Finish(t, Result("start", label[t], "pid", proc[t]))
    /\ started' = [started EXCEPT ![label[t]] =
                      IF Alive(proc[t]) THEN @ \cup {proc[t]} ELSE @]
    /\ UNCHANGED <<os, allLocals>>

\* ------------------------------------------------------------ is_running
\* Lines 123-125: proc = _processes.get(label); None gives False.
IsRunningCall(t, l) ==
    /\ pc[t] = "idle"
    /\ IF Get(processes, l) = None
       THEN Finish(t, Result("is_running", l, "bool", FALSE))
       ELSE /\ label' = [label EXCEPT ![t] = l]
            /\ proc' = [proc EXCEPT ![t] = Get(processes, l)]
            /\ pc' = [pc EXCEPT ![t] = "isrun_126"]
            /\ UNCHANGED <<binary, ret>>
    /\ UNCHANGED <<processes, os, allLocals, started>>

\* Mutant of IsRunningPoll: the presence of the entry is trusted, the
\* process is not polled.
IsRunningTrustsEntry(t) ==
    /\ pc[t] = "isrun_126"
    /\ Finish(t, Result("is_running", label[t], "bool", TRUE))
    /\ UNCHANGED <<processes, os, allLocals, started>>

\* Line 126: return proc.poll() is None
IsRunningPoll(t) ==
    /\ pc[t] = "isrun_126"
    /\ Finish(t, Result("is_running", label[t], "bool", Alive(proc[t])))
    /\ UNCHANGED <<processes, os, allLocals, started>>

\* --------------------------------------------------------------- get_pid
\* Line 133 and the first operand of line 134.
GetPidCall(t, l) ==
    /\ pc[t] = "idle"
    /\ IF Get(processes, l) = None
       THEN Finish(t, Result("get_pid", l, "pid", None))
       ELSE /\ label' = [label EXCEPT ![t] = l]
            /\ proc' = [proc EXCEPT ![t] = Get(processes, l)]
            /\ pc' = [pc EXCEPT ![t] = "getpid_134"]
            /\ UNCHANGED <<binary, ret>>
    /\ UNCHANGED <<processes, os, allLocals, started>>

\* Lines 134-136: proc.poll() is not None gives None, else proc.pid.
GetPidPoll(t) ==
    /\ pc[t] = "getpid_134"
    /\ Finish(t, Result("get_pid", label[t], "pid",
                        IF Alive(proc[t]) THEN proc[t] ELSE None))
    /\ UNCHANGED <<processes, os, allLocals, started>>

\* --------------------------------------------------------- stop_instance
\* stop_instance(l) ends with a return value or an exception (kind): back
\* to the caller, which is the front end or the loop of stop_all (lines
\* 147-149, with todo[t] the labels from the current one on).  stop_all does
\* not catch an exception, which ends it too.
StopEnd(t, l, kind, val) ==
    IF ~inAll[t]
    THEN /\ Finish(t, Result("stop", l, kind, val))
         /\ UNCHANGED allLocals
    ELSE IF kind = "bool"
    THEN /\ count' = [count EXCEPT ![t] = IF val THEN @ + 1 ELSE @]
         /\ pc' = [pc EXCEPT ![t] = "all_147"]
         /\ label' = [label EXCEPT ![t] = NoLabel]
         /\ proc' = [proc EXCEPT ![t] = None]
         /\ todo' = [todo EXCEPT ![t] = Tail(@)]
         /\ UNCHANGED <<binary, inAll, ret>>
    ELSE /\ Finish(t, Result("stop_all", NoLabel, kind, None))
         /\ inAll' = [inAll EXCEPT ![t] = FALSE]
         /\ todo' = [todo EXCEPT ![t] = <<>>]
         /\ count' = [count EXCEPT ![t] = 0]

\* Popen.send_signal: signals process p.
SendSignal(p, sig) == signals' = [signals EXCEPT ![p] = @ \cup {sig}]

\* Mutant of StopGet: _processes[label] instead of _processes.get(label),
\* which raises KeyError for a label without entry.
StopGetSubscript(t, l) ==
    /\ started' = [started EXCEPT ![l] = {}]
    /\ IF Get(processes, l) = None
       THEN StopEnd(t, l, "KeyError", None)
       ELSE /\ label' = [label EXCEPT ![t] = l]
            /\ proc' = [proc EXCEPT ![t] = Get(processes, l)]
            /\ pc' = [pc EXCEPT ![t] = "stop_101"]
            /\ UNCHANGED <<binary, allLocals, ret>>

\* Lines 97-99: proc = _processes.get(label); None gives False.
StopGet(t, l) ==
    /\ started' = [started EXCEPT ![l] = {}]
    /\ IF Get(processes, l) = None
       THEN StopEnd(t, l, "bool", FALSE)
       ELSE /\ label' = [label EXCEPT ![t] = l]
            /\ proc' = [proc EXCEPT ![t] = Get(processes, l)]
            /\ pc' = [pc EXCEPT ![t] = "stop_101"]
            /\ UNCHANGED <<binary, allLocals, ret>>

\* stop_instance called by the front end.
StopCall(t, l) ==
    /\ pc[t] = "idle"
    /\ StopGet(t, l)
    /\ UNCHANGED <<processes, os>>

\* Mutant of StopPopStale: the stale entry is left in _processes.
StopStaleKeepsEntry(t) ==
    /\ pc[t] = "stop_101"
    /\ ~Alive(proc[t])
    /\ processes' = processes
    /\ StopEnd(t, label[t], "bool", FALSE)
    /\ UNCHANGED <<os, started>>

\* Lines 101-104: proc.poll() is not None: already exited: drop the entry,
\* return False.
StopPopStale(t) ==
    /\ pc[t] = "stop_101"
    /\ ~Alive(proc[t])
    /\ processes' = Pop(processes, label[t])
    /\ StopEnd(t, label[t], "bool", FALSE)
    /\ UNCHANGED <<os, started>>

\* Mutant of StopTerminate: every running uxplay is signalled (as by
\* "pkill uxplay"), not only the process of the label.
StopTerminateEveryUxplay(t) ==
    /\ pc[t] = "stop_101"
    /\ Alive(proc[t])
    /\ signals' = [p \in 1..Len(signals) |->
                      IF p \in running THEN signals[p] \cup {"SIGTERM"}
                      ELSE signals[p]]
    /\ pc' = [pc EXCEPT ![t] = "stop_109"]
    /\ UNCHANGED <<processes, spawned, running, label, binary, proc,
                   allLocals, ret, started>>

\* Lines 101 and 107: proc.poll() is None; proc.terminate()
StopTerminate(t) ==
    /\ pc[t] = "stop_101"
    /\ Alive(proc[t])
    /\ SendSignal(proc[t], "SIGTERM")
    /\ pc' = [pc EXCEPT ![t] = "stop_109"]
    /\ UNCHANGED <<processes, spawned, running, label, binary, proc,
                   allLocals, ret, started>>

\* Mutant of StopWaitExited: after proc.kill() the second wait is left out,
\* so that the function goes on to return True at once.
StopWaitSkippedAfterKill(t) ==
    /\ \/ pc[t] = "stop_109" /\ ~Alive(proc[t])
       \/ pc[t] = "stop_112"
    /\ processes' = Pop(processes, label[t])
    /\ StopEnd(t, label[t], "bool", TRUE)
    /\ UNCHANGED <<os, started>>

\* Lines 109 and 112: proc.wait(timeout=timeout) returns once the process
\* has exited; lines 113-116: finally: _processes.pop(label, None), then
\* return True.
StopWaitExited(t) ==
    /\ pc[t] \in {"stop_109", "stop_112"}
    /\ ~Alive(proc[t])
    /\ processes' = Pop(processes, label[t])
    /\ StopEnd(t, label[t], "bool", TRUE)
    /\ UNCHANGED <<os, started>>

\* Lines 109-111: the first wait raises TimeoutExpired because the timeout
\* ends first; line 110 catches it: proc.kill()
StopKill(t) ==
    /\ pc[t] = "stop_109"
    /\ Alive(proc[t])
    /\ SendSignal(proc[t], "SIGKILL")
    /\ pc' = [pc EXCEPT ![t] = "stop_112"]
    /\ UNCHANGED <<processes, spawned, running, label, binary, proc,
                   allLocals, ret, started>>

\* Mutant of StopKillWaitTimeout: the try statement has no finally clause,
\* so that the exception of the second wait skips the pop.
StopKillWaitTimeoutNoFinally(t) ==
    /\ pc[t] = "stop_112"
    /\ Alive(proc[t])
    /\ processes' = processes
    /\ StopEnd(t, label[t], "TimeoutExpired", None)
    /\ UNCHANGED <<os, started>>

\* Mutant of StopKillWaitTimeout: when the second wait times out too, the
\* kill and the wait are tried again (a loop until the process is gone).
StopKillWaitRetries(t) ==
    /\ pc[t] = "stop_112"
    /\ Alive(proc[t])
    /\ SendSignal(proc[t], "SIGKILL")
    /\ UNCHANGED <<processes, spawned, running, pc, label, binary, proc,
                   allLocals, ret, started>>

\* Lines 112-114: the second wait raises TimeoutExpired too: nothing
\* catches it; finally: _processes.pop(label, None), and the exception goes
\* on to the caller.
StopKillWaitTimeout(t) ==
    /\ pc[t] = "stop_112"
    /\ Alive(proc[t])
    /\ processes' = Pop(processes, label[t])
    /\ StopEnd(t, label[t], "TimeoutExpired", None)
    /\ UNCHANGED <<os, started>>

\* -------------------------------------------------------------- stop_all
\* Lines 145-146: labels = list(_processes.keys()); stopped_count = 0
StopAllCall(t) ==
    /\ pc[t] = "idle"
    /\ todo' = [todo EXCEPT ![t] = Keys(processes)]
    /\ count' = [count EXCEPT ![t] = 0]
    /\ inAll' = [inAll EXCEPT ![t] = TRUE]
    /\ pc' = [pc EXCEPT ![t] = "all_147"]
    /\ started' = [l \in Labels |-> {}]
    /\ UNCHANGED <<processes, os, label, binary, proc, ret>>

\* Lines 147-148: the next label of the snapshot goes to stop_instance.
StopAllNext(t) ==
    /\ pc[t] = "all_147"
    /\ todo[t] # <<>>
    /\ StopGet(t, Head(todo[t]))
    /\ UNCHANGED <<processes, os>>

\* Line 150: after the last label, return stopped_count.
StopAllReturn(t) ==
    /\ pc[t] = "all_147"
    /\ todo[t] = <<>>
    /\ Finish(t, Result("stop_all", NoLabel, "count", count[t]))
    /\ inAll' = [inAll EXCEPT ![t] = FALSE]
    /\ count' = [count EXCEPT ![t] = 0]
    /\ UNCHANGED <<processes, os, todo, started>>

\* ------------------------------------------------------- specification
Next ==
    \/ \E p \in Pids : ProcExit(p)
    \/ \E t \in Threads, l \in Labels, b \in StartInputs : StartCall(t, l, b)
    \/ \E t \in Threads : StartPoll(t)
    \/ \E t \in Threads : StartRaise(t)
    \/ \E t \in Threads : StartNotFound(t)
    \/ \E t \in Threads : StartPopen(t)
    \/ \E t \in Threads : StartPopenFails(t)
    \/ \E t \in Threads : StartStore(t)
    \/ \E t \in Threads, l \in Labels : IsRunningCall(t, l)
    \/ \E t \in Threads : IsRunningPoll(t)
    \/ \E t \in Threads, l \in Labels : GetPidCall(t, l)
    \/ \E t \in Threads : GetPidPoll(t)
    \/ \E t \in Threads, l \in Labels : StopCall(t, l)
    \/ \E t \in Threads : StopPopStale(t)
    \/ \E t \in Threads : StopTerminate(t)
    \/ \E t \in Threads : StopWaitExited(t)
    \/ \E t \in Threads : StopKill(t)
    \/ \E t \in Threads : StopKillWaitTimeout(t)
    \/ \E t \in Threads : StopAllCall(t)
    \/ \E t \in Threads : StopAllNext(t)
    \/ \E t \in Threads : StopAllReturn(t)
    \/ \E t \in Threads : Shown(t)

Spec == Init /\ [][Next]_vars

\* The calls one at a time: a call begins only when no other thread is in
\* a call (a single browser session, whose script runs top to bottom).
Quiet(t) == \A u \in Threads \ {t} : pc[u] \in {"idle", "done"}
SeqNext ==
    /\ Next
    /\ \A t \in Threads : (pc[t] = "idle" /\ pc'[t] # "idle") => Quiet(t)
SeqSpec == Init /\ [][SeqNext]_vars

\* A thread inside stop_instance or stop_all keeps running: no step of
\* theirs waits for another thread, and proc.wait(timeout=timeout) ends
\* when the process has exited or the timeout is over, whichever is first.
\* Nothing is assumed of the processes (they need not ever exit) nor of the
\* front end (it need not make another call).
StopProgress(t) ==
    \/ StopPopStale(t)
    \/ StopTerminate(t)
    \/ StopWaitExited(t)
    \/ StopKill(t)
    \/ StopKillWaitTimeout(t)
    \/ StopAllNext(t)
    \/ StopAllReturn(t)

FairSpec == Spec /\ \A t \in Threads : WF_vars(StopProgress(t))

\* ------------------------------------------- the functions on their own
\* _resolve_binary and the command line of start_instance are functions of
\* their arguments (and of the file system): one call at a time, on every
\* input, with no process involved.
ResolveBinary(t, fs, b) ==
    /\ \A u \in Threads : pc[u] = "idle"
    /\ Finish(t, [op |-> "_resolve_binary", fs |-> fs, binary_path |-> b,
                  out |-> resolve_binary(fs, b)])
    /\ UNCHANGED <<processes, os, allLocals, started>>

\* Lines 63-77 of a start_instance whose binary resolves (on the host's
\* file system): the argument vector handed to subprocess.Popen.
BuildCmd(t, b, airplay_name, base_port, extra_args) ==
    /\ \A u \in Threads : pc[u] = "idle"
    /\ resolve_binary(HostFS, b).ok
    /\ Finish(t, [op |-> "cmd", binary_path |-> b,
                  airplay_name |-> airplay_name, base_port |-> base_port,
                  extra_args |-> extra_args,
                  argv |-> cmd(resolve_binary(HostFS, b).path, airplay_name,
                               base_port, extra_args)])
    /\ UNCHANGED <<processes, os, allLocals, started>>

FnNext ==
    \/ \E t \in Threads, fs \in FileSystems, b \in BinaryInputs :
          ResolveBinary(t, fs, b)
    \/ \E t \in Threads, b \in BinaryInputs, n \in AirplayNames,
          p \in BasePorts, e \in ExtraArgs : BuildCmd(t, b, n, p, e)
    \/ \E t \in Threads : Shown(t)

FnSpec == Init /\ [][FnNext]_vars

\* ---------------------------------------------------------------- claims
\* The live processes start_instance created for label l.
LiveOf(l) == {p \in running : spawned[p] = l}

\* Thread t is between the liveness check of start_instance and its insert.
InStart(t) == pc[t] \in {"start_58", "start_59", "start_66", "start_85"}
InStop(t) == pc[t] \in {"stop_101", "stop_109", "stop_112"}

\* This step ends a call of op by thread t.
Returns(t, op) == ret'[t] # ret[t] /\ ret'[t].op = op

\* This step ends a call of stop_instance(l) by thread t, made by the front
\* end or by stop_all, with a return value or with an exception: from
\* inside the function, or at once at line 99.
StopEnds(t, l) ==
    \/ InStop(t) /\ ~InStop(t)' /\ l = label[t]
    \/ pc[t] = "idle" /\ Returns(t, "stop") /\ l = ret'[t].label
    \/ pc[t] = "all_147" /\ pc'[t] = "all_147" /\ todo[t] # <<>>
          /\ todo'[t] = Tail(todo[t]) /\ l = Head(todo[t])

\* This step ends a call of stop_instance by thread t with the value True.
StopReturnsTrue(t) ==
    IF inAll[t] THEN pc'[t] = "all_147" /\ count'[t] = count[t] + 1
    ELSE Returns(t, "stop") /\ ret'[t].kind = "bool" /\ ret'[t].val

\* C1: in every reachable state, every label has at most one live process
\* that start_instance spawned for it.
C1_AtMostOneLivePerLabel == \A l \in Labels : Cardinality(LiveOf(l)) <= 1

\* C2: of two start_instance calls for one label that overlap, at most one
\* gets past the liveness check and spawns: never do two threads both hold
\* a child they spawned for the same label and have yet to insert.
C2_OverlappingStartsSpawnOnce ==
    \A t1, t2 \in Threads :
        (t1 # t2 /\ pc[t1] = "start_85" /\ pc[t2] = "start_85")
            => label[t1] # label[t2]

\* C3: a process whose pid a successful start_instance(l) returned is, as
\* long as it runs and no stop_instance(l) or stop_all has been called
\* since, the entry of l: is_running(l) is True and get_pid(l) is that pid.
C3_StartedIsReported ==
    \A l \in Labels : \A p \in started[l] :
        Alive(p) => Get(processes, l) = p

\* C4: a start_instance(l) called while the process of an earlier
\* successful start_instance(l) is alive, with no stop of l called since,
\* does not get past the liveness check of line 58 (it raises the
\* already-running error and spawns nothing).
C4_SecondStartRefused ==
    [][\A t \in Threads :
          (pc[t] \in {"idle", "start_58"} /\ pc'[t] = "start_66")
              => started[label'[t]] = {}]_vars

\* C5: a step that ends start_instance with an error (already running,
\* binary not found, spawn failure, ...) leaves _processes as it is and
\* creates no process, the failing call holds no child it spawned, and no
\* step of a start_instance call before its final insert changes
\* _processes: a failed call has changed nothing.
C5_FailedStartChangesNothing ==
    [][\A t \in Threads :
          /\ (Returns(t, "start") /\ ret'[t].kind # "pid")
                => /\ processes' = processes
                   /\ spawned' = spawned
                   /\ running' = running
                   /\ proc[t] = None
          /\ ((InStart(t) \/ InStart(t)') /\ pc'[t] # pc[t]
                 /\ ~(Returns(t, "start") /\ ret'[t].kind = "pid"))
                => processes' = processes]_vars

C5_Witness ==
    \E t \in Threads :
        /\ pc[t] = "done" /\ ret[t].op = "start" /\ ret[t].kind = "NotFound"
        /\ Has(processes, ret[t].label)
        /\ Len(processes) = 2

\* C6: when stop_instance(l) ends, by whichever branch and also with the
\* exception of the second wait, _processes holds no entry for l.
C6_StopLeavesNoEntry ==
    [][\A t \in Threads, l \in Labels :
          StopEnds(t, l) => ~Has(processes', l)]_vars

C6_Witness ==
    \E t \in Threads :
        /\ pc[t] = "done" /\ ret[t].op = "stop"
        /\ ret[t].kind = "TimeoutExpired"
        /\ ~Has(processes, ret[t].label)
        /\ LiveOf(ret[t].label) # {}

\* C7: stop_instance always ends with a boolean, never with an exception.
C7_StopNeverRaises ==
    \A t \in Threads : ret[t].op = "stop" => ret[t].kind = "bool"

\* C8: whenever stop_instance returns True, the process it took from
\* _processes when it was called has exited.
C8_StoppedMeansExited ==
    [][\A t \in Threads :
          StopReturnsTrue(t)
              => (InStop(t) /\ ~Alive(proc[t]) /\ proc[t] \notin running')]_vars

C8_Witness ==
    \E t \in Threads :
        /\ pc[t] = "done" /\ ret[t].op = "stop" /\ ret[t].kind = "bool"
        /\ ret[t].val

\* C9: stop_instance(l) called (by the front end or by stop_all) with no
\* entry for l returns False, raises nothing, signals no process and
\* leaves _processes unchanged.
C9_StopOfAbsentLabel ==
    [][\A t \in Threads, l \in Labels :
          ((StopCall(t, l) \/ (StopAllNext(t) /\ l = Head(todo[t])))
             /\ ~Has(processes, l))
              => /\ IF inAll[t]
                    THEN pc'[t] = "all_147" /\ count'[t] = count[t]
                    ELSE pc'[t] = "done"
                         /\ ret'[t] = Result("stop", l, "bool", FALSE)
                 /\ signals' = signals
                 /\ running' = running
                 /\ processes' = processes]_vars

C9_Witness ==
    \E t \in Threads :
        /\ pc[t] = "done" /\ ret[t] = Result("stop", "ipad", "bool", FALSE)
        /\ ~Has(processes, "ipad")
        /\ Has(processes, "iphone")

\* C10: is_running and get_pid answer from the process's state at the time
\* of the call, not from the entry: they poll the process that is the
\* entry of the label; for one that has exited is_running returns False
\* and get_pid None, and get_pid returns no pid of a process that has
\* exited.
C10_LivenessIsRechecked ==
    [][\A t \in Threads :
          /\ (pc[t] = "idle" /\ pc'[t] \in {"isrun_126", "getpid_134"})
                => proc'[t] = Get(processes, label'[t])
          /\ (pc[t] = "isrun_126" /\ pc'[t] # pc[t])
                => ret'[t] = Result("is_running", label[t], "bool", Alive(proc[t]))
          /\ (pc[t] = "getpid_134" /\ pc'[t] # pc[t] /\ ~Alive(proc[t]))
                => ret'[t] = Result("get_pid", label[t], "pid", None)
          /\ (Returns(t, "get_pid") /\ ret'[t].val # None)
                => ret'[t].val \in running']_vars

C10_Witness ==
    \E t \in Threads, l \in Labels :
        /\ pc[t] = "done" /\ ret[t] = Result("is_running", l, "bool", FALSE)
        /\ Has(processes, l)
        /\ ~Alive(Get(processes, l))

\* C11 (calls one at a time): a call of stop_all ends by returning a count,
\* and when it has ended is_running is False for every label: no label is
\* left whose entry is a running process.
C11_StopAllCountsAndStops ==
    [][\A t \in Threads :
          (inAll[t] /\ ~inAll'[t])
              => /\ ret'[t].kind = "count"
                 /\ \A l \in Labels : Get(processes', l) \notin running']_vars

\* C12: stop_all calls stop_instance on every label of its snapshot: when
\* it ends, by return or because one stop_instance failed, no label of the
\* snapshot is left on which stop_instance has not been called.
C12_StopAllTriesEveryLabel ==
    [][\A t \in Threads :
          (inAll[t] /\ ~inAll'[t])
              => (todo[t] = <<>> \/ Tail(todo[t]) = <<>>)]_vars

\* C16: a step of stop_instance(l) that removes the entry of l removes the
\* entry of the process that stop_instance took from _processes and
\* terminated, never the entry of another process (one that a start_instance
\* overlapping with the stop stored in between).
C16_StopRemovesOnlyItsOwn ==
    [][\A t \in Threads :
          (InStop(t) /\ pc'[t] # pc[t]
             /\ Has(processes, label[t]) /\ ~Has(processes', label[t]))
              => Get(processes, label[t]) = proc[t]]_vars

\* C17: stop_instance(l) takes the process that is the entry of l without
\* signalling it and, finding that it has exited, leaves no entry of l,
\* returns False, and sends no signal to any process.
C17_StopOfStaleEntry ==
    [][\A t \in Threads :
          /\ (pc[t] \in {"idle", "all_147"} /\ pc'[t] = "stop_101")
                => /\ proc'[t] = Get(processes, label'[t])
                   /\ signals' = signals
          /\ (pc[t] = "stop_101" /\ ~Alive(proc[t]) /\ pc'[t] # pc[t])
                => /\ ~Has(processes', label[t])
                   /\ signals' = signals
                   /\ running' = running
                   /\ IF inAll[t]
                      THEN pc'[t] = "all_147" /\ count'[t] = count[t]
                      ELSE ret'[t] = Result("stop", label[t], "bool", FALSE)]_vars

C17_Witness ==
    \E t \in Threads :
        /\ pc[t] = "stop_101"
        /\ ~Alive(proc[t])
        /\ Get(processes, label[t]) = proc[t]

ActsOn(t, a) ==
    \/ label[t] = a /\ pc'[t] # pc[t]
    \/ label[t] = NoLabel /\ label'[t] = a
    \/ label[t] = NoLabel /\ label'[t] = NoLabel
          /\ ret'[t] # ret[t] /\ ret'[t].label = a
    \/ pc[t] = "all_147" /\ pc'[t] = "all_147" /\ todo[t] # <<>>
          /\ todo'[t] = Tail(todo[t]) /\ Head(todo[t]) = a

\* C20: no step of a call on label a adds, removes or replaces the entry of
\* another label b, signals the process that is the entry of b or was
\* spawned for b, or ends it.
C20_OtherLabelsUntouched ==
    [][\A t \in Threads :
          (pc'[t] # pc[t] \/ todo'[t] # todo[t]) =>
             \A a \in Labels :
                ActsOn(t, a) =>
                   \A b \in Labels \ {a} :
                      /\ Has(processes', b) = Has(processes, b)
                      /\ Get(processes', b) = Get(processes, b)
                      /\ \A p \in 1..Len(signals) :
                            (spawned[p] = b \/ Get(processes, b) = p)
                               => /\ signals'[p] = signals[p]
                                  /\ (p \in running => p \in running')]_vars

C20_Witness ==
    \E t \in Threads :
        /\ pc[t] = "done"
        /\ ret[t] = Result("stop", "ipad", "bool", TRUE)
        /\ ~Has(processes, "ipad")
        /\ Alive(Get(processes, "iphone"))
        /\ signals[Get(processes, "iphone")] = {}

\* The number a string of decimal digits stands for.
RECURSIVE DecimalValue(_)
DecimalValue(s) ==
    IF s = <<>> THEN 0
    ELSE 10 * DecimalValue(SubSeq(s, 1, Len(s) - 1))
         + (CHOOSE d \in 0..9 : Digits[d + 1] = s[Len(s)])

\* C13: the argument vector of a start_instance whose binary resolves is
\* the resolved path, "-n", airplay_name, "-p", the decimal digits of
\* base_port (no sign, no leading zero), "-vsync", "no", and then the
\* elements of extra_args as given and in their order, and nothing else.
C13_ArgumentVector ==
    \A t \in Threads :
        ret[t].op = "cmd" =>
            LET r == ret[t]
                a == r.argv
                extra == IF r.extra_args.is_none THEN <<>>
                         ELSE r.extra_args.items
            IN /\ Len(a) = 7 + Len(extra)
               /\ a[1] = resolve_binary(HostFS, r.binary_path).path
               /\ a[2] = <<"-", "n">>
               /\ a[3] = r.airplay_name
               /\ a[4] = <<"-", "p">>
               /\ \A i \in 1..Len(a[5]) : \E d \in 0..9 : a[5][i] = Digits[d + 1]
               /\ Len(a[5]) >= 1
               /\ (Len(a[5]) > 1 => a[5][1] # "0")
               /\ DecimalValue(a[5]) = r.base_port
               /\ a[6] = <<"-", "v", "s", "y", "n", "c">>
               /\ a[7] = <<"n", "o">>
               /\ \A i \in 1..Len(extra) : a[7 + i] = extra[i]

\* start_instance("ipad", "uxplay", "iPadMirror", 7000) on the host.
C13_Witness ==
    \E t \in Threads :
        /\ ret[t].op = "cmd"
        /\ ret[t].binary_path = Uxplay
        /\ ret[t].extra_args = NoneArgs
        /\ ret[t].argv =
              << <<"/", "b", "/", "u", "x", "p", "l", "a", "y">>,
                 <<"-", "n">>,
                 <<"i", "P", "a", "d", "M", "i", "r", "r", "o", "r">>,
                 <<"-", "p">>,
                 <<"7", "0", "0", "0">>,
                 <<"-", "v", "s", "y", "n", "c">>,
                 <<"n", "o">> >>

\* C14 as the spec has it: a candidate with a separator is returned
\* unchanged when it is an executable regular file and gives NotFound
\* otherwise, whatever is on the search path; one without separator gives
\* the first path of the search path that is an executable regular file,
\* and NotFound(candidate) when there is none.
C14_FirstExecutableRegularFile ==
    \A t \in Threads :
        ret[t].op = "_resolve_binary" =>
            LET fs == ret[t].fs
                c == candidate_of(ret[t].binary_path)
                at(i) == PathDirs[i] \o <<Sep>> \o c
                good(p) == isfile(fs, p) /\ access_X_OK(fs, p)
                hits == {i \in 1..Len(PathDirs) : good(at(i))}
            IN IF \E i \in 1..Len(c) : c[i] = Sep
               THEN ret[t].out = IF good(c) THEN Found(c)
                                 ELSE FileNotFoundError(c)
               ELSE IF hits = {}
               THEN ret[t].out = FileNotFoundError(c)
               ELSE \E i \in hits :
                       /\ \A j \in hits : i <= j
                       /\ ret[t].out = Found(at(i))

\* C14 as amended: for a candidate without separator the search stops at
\* the first path of the search path that exists, may be executed and is
\* not a directory: that path is returned when it is a regular file, and
\* otherwise, or when there is no such path, the outcome is
\* NotFound(candidate).
C14_FirstExecutableNonDirectory ==
    \A t \in Threads :
        ret[t].op = "_resolve_binary" =>
            LET fs == ret[t].fs
                c == candidate_of(ret[t].binary_path)
                at(i) == PathDirs[i] \o <<Sep>> \o c
                good(p) == isfile(fs, p) /\ access_X_OK(fs, p)
                hits == {i \in 1..Len(PathDirs) :
                            /\ at(i) \in fs.files \cup fs.special
                            /\ at(i) \in fs.exec}
            IN IF \E i \in 1..Len(c) : c[i] = Sep
               THEN ret[t].out = IF good(c) THEN Found(c)
                                 ELSE FileNotFoundError(c)
               ELSE IF hits = {}
               THEN ret[t].out = FileNotFoundError(c)
               ELSE \E i \in hits :
                       /\ \A j \in hits : i <= j
                       /\ ret[t].out = IF at(i) \in fs.files THEN Found(at(i))
                                       ELSE FileNotFoundError(c)

\* "uxplay" is not found: the first directory of the search path holds an
\* executable special file of that name, the second an executable regular
\* file.
C14_Witness ==
    \E t \in Threads :
        /\ ret[t].op = "_resolve_binary"
        /\ ret[t].binary_path = Uxplay
        /\ (<<"/", "a", "/">> \o Uxplay) \in ret[t].fs.special
        /\ (<<"/", "b", "/">> \o Uxplay) \in ret[t].fs.files
        /\ (<<"/", "b", "/">> \o Uxplay) \in ret[t].fs.exec
        /\ ret[t].out = FileNotFoundError(Uxplay)

\* C15: an input that is empty or only whitespace resolves as "uxplay"
\* does: it is found exactly when "uxplay" is, and then with the same path.
C15_BlankMeansUxplay ==
    \A t \in Threads :
        (ret[t].op = "_resolve_binary" /\ strip(ret[t].binary_path) = <<>>)
            => LET as_uxplay == resolve_binary(ret[t].fs, Uxplay)
               IN /\ ret[t].out.ok = as_uxplay.ok
                  /\ ret[t].out.ok => ret[t].out.path = as_uxplay.path

\* C19: a thread in stop_instance or stop_all gets to where it is in
\* neither: every call of stop_instance ends, also when the process never
\* exits, and so does every call of stop_all; a stop_instance waits at most
\* twice: the wait after terminate() is followed by the end of the call or
\* by kill() and the second wait, and the second wait by the end of the
\* call.
C19_StopFinishes ==
    /\ [][\A t \in Threads :
             /\ (pc[t] = "stop_109" /\ pc'[t] # pc[t])
                   => (pc'[t] = "stop_112" \/ ~InStop(t)')
             /\ (pc[t] = "stop_112" /\ pc'[t] # pc[t]) => ~InStop(t)']_vars
    /\ \A t \in Threads :
          (InStop(t) \/ inAll[t]) ~> (~InStop(t) /\ ~inAll[t])

\* A stop_instance has ended with the process it was to stop still running.
C19_Witness ==
    \E t \in Threads :
        /\ pc[t] = "done"
        /\ ret[t].op = "stop"
        /\ ret[t].kind = "TimeoutExpired"
        /\ running # {}
        /\ \A u \in Threads : ~InStop(u)

====
